---------------------------- MODULE Spec2Model ----------------------------
(***************************************************************************)
(* Live vehicle tracking engine of bratislava-public-transport:            *)
(*   - normalizeVehicles      (src/src/utils/normalize.ts)                 *)
(*   - useVehicles            (src/unnamed/part_004)                       *)
(*   - VehicleLayer           (src/unnamed/part_002)                       *)
(*   - useRoutedPath          (src/unnamed/part_002)                       *)
(* Each subsystem has its own specification over its own variables; the    *)
(* variables of the other subsystems stay at their initial values.         *)
(*                                                                         *)
(* Conventions.  An optional JavaScript value is a sequence: <<>> is       *)
(* undefined, <<v>> is the value v.  Geographic coordinates are integers   *)
(* in units of 0.00005 degree.  Angles are integers in degrees.            *)
(***************************************************************************)
EXTENDS Integers, Sequences, FiniteSets, TLC

VARIABLES
    \* ---- normalizeVehicles, applied pass after pass
    nExisting,      \* the existingMap argument of the last pass, before the call
    nExistingAfter, \* the same Map object after the call
    nRaw,           \* the rawList argument of the last pass
    nMap,           \* the Map returned by the last pass
    \* ---- useVehicles
    vehicles, vehiclesRef, lastFetch, error, loading, reloading,
    backoffRef, timerRef, pollInterval, effectGen, loops, flights,
    consecFails,    \* history: failed fetches completed since the last success
    lastOutcome,    \* history: how the last completed fetch ended
    lastDone,       \* history: the fetch that completed last
    lastKind,       \* history: what the response of that fetch was
    timerSince,     \* history: a timer has fired since that fetch completed
    \* ---- VehicleLayer
    groups,         \* composite id -> render node (rotation.y, targetHeading)
    data,           \* composite id -> Vehicle
    headingTracker, \* vehicleID -> [x, z, heading, roadKey]
    lastList,       \* history: the list passed to the last updateVehicles
    lastMatched,    \* history: the composite ids it found a road match for
    lastRenamed,    \* history: the vehicleIDs it met under new composite ids only
    \* ---- useRoutedPath
    tripStops,      \* the hook's argument
    routedPath,     \* state: Some(path), or Undefined once set to undefined
    routeLoading,   \* state: loading
    abortRef,       \* abortRef.current: the number of an operation, 0 for null
    effectCtrl,     \* the ctrl the last effect's clean-up aborts, 0 for none
    ops,            \* the route operations started, in order
    routeGen,       \* the number of effect runs so far
    routeMounted,   \* "no", "yes" or "gone"
    lastResponse,   \* history: the last routing response delivered, and
                    \* whether its handling called console.warn
    \* ---- the chunk-building loop of fetchChunkedRoute
    cN, cI, cChunks, cPc,
    \* ---- the stitch loop of fetchChunkedRoute
    sResults,       \* the geometries of the chunks
    sStitched,      \* the value returned
    sSeams,         \* history: lastPt and startIdx of each later chunk
    sPc,
    \* ---- useTripStops
    tsTripStops,    \* the tripStops state of useTripStops
    tsLoading, tsError, activeTripID,
    tsCalls,        \* calls of fetchTripStops awaiting their response
    tsCallCount,    \* calls made so far
    tsLast,         \* history: the call settled last and its response
    \* ---- a call of angleDelta and angleDiff
    aTarget, aCurrent,  \* the arguments
    aDelta, aDiff,      \* the values returned
    \* ---- a call of getRoadMatch
    mPc,            \* "idle", "args" (called, not returned) or "done"
    mFeats,         \* the segments of the features queried, in their order
    mPreferred,     \* preferredHeading: Undefined (null) or Some(degrees)
    mSticky,        \* stickyRoadKey: Undefined or Some(segment key)
    mResult,        \* the value returned: Undefined (null) or Some(match)
    \* ---- the render loop of the custom layer
    rNodes,         \* id -> [rotationY (thousandths of a degree),
                    \*        targetHeading (Undefined or Some(degrees))]
    lastRenderTime, \* performance.now() of the last render call, 0 at first
    rPrev,          \* history: the nodes before the last render call
    rDt             \* history: dt of the last render call

normVars == <<nExisting, nExistingAfter, nRaw, nMap>>
pollVars == <<vehicles, vehiclesRef, lastFetch, error, loading, reloading,
              backoffRef, timerRef, pollInterval, effectGen, loops, flights,
              consecFails, lastOutcome, lastDone, lastKind, timerSince>>
layerVars == <<groups, data, headingTracker, lastList, lastMatched,
               lastRenamed>>
routeVars == <<tripStops, routedPath, routeLoading, abortRef, effectCtrl, ops,
              routeGen, routeMounted, lastResponse>>
chunkVars == <<cN, cI, cChunks, cPc>>
stitchVars == <<sResults, sStitched, sSeams, sPc>>
routingVars == <<routeVars, chunkVars, stitchVars>>
tripVars == <<tsTripStops, tsLoading, tsError, activeTripID, tsCalls,
              tsCallCount, tsLast>>
angleVars == <<aTarget, aCurrent, aDelta, aDiff>>
matchVars == <<mPc, mFeats, mPreferred, mSticky, mResult>>
renderVars == <<rNodes, lastRenderTime, rPrev, rDt>>
vars == <<normVars, pollVars, layerVars, routingVars, tripVars, angleVars,
          matchVars, renderVars>>

-----------------------------------------------------------------------------
(* Optional values *)

Undefined == <<>>
Some(v) == <<v>>
IsDefined(o) == o # <<>>
\* JavaScript's  o ?? d
OrElse(o, d) == IF o = <<>> THEN d ELSE o[1]
\* Template-literal conversion of an optional number: `${o}`
TemplateStr(o) == IF o = <<>> THEN "undefined" ELSE ToString(o[1])

\* A Map with no entries.  An optional Map parameter is Undefined or Some(m).
EmptyMap == [k \in {} |-> <<>>]

Range(s) == {s[i] : i \in 1..Len(s)}

\* The element of a one-element set; The({F(x) : x \in {e}}) is F(e) with e
\* evaluated once
The(S) == CHOOSE x \in S : TRUE

-----------------------------------------------------------------------------
(* normalize.ts *)

\* The raw feed records drawn by the model: physical vehicle 7 at two
\* positions under one composite id and under a second one, and records with
\* fields missing.  Raw lists hold up to MaxRaw of them, in any order.
MaxRaw == 2

Raw(p, s, lat, lng) ==
    [vehicleID |-> p, lastStopOrder |-> s, latitude |-> lat, longitude |-> lng]

RawVehicles ==
    { Raw(Some(7), Some(3), Some(480), Some(170)),
      Raw(Some(7), Some(3), Some(481), Some(171)),
      Raw(Some(7), Some(4), Some(480), Some(170)),
      Raw(Some(8), Undefined, Undefined, Some(171)) }

RawLists == UNION {[1..n -> RawVehicles] : n \in 0..MaxRaw}

makeId(raw) ==
    TemplateStr(raw.vehicleID) \o "-" \o TemplateStr(raw.lastStopOrder)

\* existingMap?.get(id): the record under id, or undefined
MapGet(existingMap, id) ==
    IF existingMap = Undefined THEN Undefined
    ELSE IF id \in DOMAIN existingMap[1] THEN Some(existingMap[1][id])
    ELSE Undefined

\* A normalizer that never carries the previous position over
normalizeVehicle_NoPrev(raw, existingMap) ==
    [id            |-> makeId(raw),
     vehicleID     |-> raw.vehicleID,
     latitude      |-> OrElse(raw.latitude, 0),
     longitude     |-> OrElse(raw.longitude, 0),
     prevLatitude  |-> Undefined,
     prevLongitude |-> Undefined,
     lastStopOrder |-> OrElse(raw.lastStopOrder, 0)]

\* The trip attributes, vehicleType and lastSeen of a Vehicle are copies of
\* the raw record or of the clock and are read by no operation modelled here.
normalizeVehicle(raw, existingMap) ==
    LET id == makeId(raw)
        existing == MapGet(existingMap, id)
    IN  [id            |-> id,
         vehicleID     |-> raw.vehicleID,
         latitude      |-> OrElse(raw.latitude, 0),
         longitude     |-> OrElse(raw.longitude, 0),
         prevLatitude  |-> IF IsDefined(existing)
                           THEN Some(existing[1].latitude) ELSE Undefined,
         prevLongitude |-> IF IsDefined(existing)
                           THEN Some(existing[1].longitude) ELSE Undefined,
         lastStopOrder |-> OrElse(raw.lastStopOrder, 0)]

\* map.set(k, v)
MapSet(m, k, v) == [x \in DOMAIN m \cup {k} |-> IF x = k THEN v ELSE m[x]]

\* The loop of normalizeVehicles over rawList[1..n]: the Map built so far and
\* the existingMap object, which the loop only reads.
RECURSIVE NormalizeLoop(_, _, _, _)
NormalizeLoop(rawList, n, start, existingMap) ==
    IF n = 0 THEN [map |-> start, existing |-> existingMap]
    ELSE LET acc == NormalizeLoop(rawList, n - 1, start, existingMap)
             v   == normalizeVehicle(rawList[n], acc.existing)
         IN  [map |-> MapSet(acc.map, v.id, v), existing |-> acc.existing]

\* A normalizer that merges into the previous map instead of starting empty
normalizeVehicles_Merge(rawList, existingMap) ==
    NormalizeLoop(rawList, Len(rawList),
                  OrElse(existingMap, EmptyMap),
                  existingMap)

normalizeVehicles(rawList, existingMap) ==
    NormalizeLoop(rawList, Len(rawList), EmptyMap, existingMap)

-----------------------------------------------------------------------------
(* Normalisation passes: each pass is given the Map of the pass before it  *)
(* (useVehicles passes vehiclesRef.current) or no Map at all.              *)

NormInit ==
    /\ nExisting = Undefined
    /\ nExistingAfter = Undefined
    /\ nRaw = <<>>
    /\ nMap = EmptyMap

NormalizePass(rawList, existingMap) ==
    LET r == normalizeVehicles(rawList, existingMap)
    IN  /\ nExisting' = existingMap
        /\ nExistingAfter' = r.existing
        /\ nRaw' = rawList
        /\ nMap' = r.map

NormPassChained == \E rawList \in RawLists : NormalizePass(rawList, Some(nMap))
NormPassFresh   == \E rawList \in RawLists : NormalizePass(rawList, Undefined)


-----------------------------------------------------------------------------
(* useVehicles *)

\* Math.min(backoffRef.current * 2, 12)
BackoffCap == 12
MsPerSecond == 1000

\* Bounds of the poller model
MaxEffects == 2     \* runs of the schedule effect (mount, settings changes)
MaxTime == 1        \* readings of Date.now() are 0..MaxTime
MaxFails == 4       \* consecFails saturates here
PollIntervals == {5, 15}
DefaultPollInterval == 5

Min(a, b) == IF a < b THEN a ELSE b
Max(a, b) == IF a > b THEN a ELSE b

\* Raw lists the feed returns in the poller model
FeedLists == { <<>>, <<Raw(Some(7), Some(3), Some(480), Some(170))>> }

\* What fetch(...) and res.json() can deliver: a network error, a non-OK
\* status, a body that is no JSON, a body with a vehicles array, a bare array,
\* or a body of another shape
FetchFailures == {"network", "http", "json"}
FetchOutcomes ==
    [kind : FetchFailures, list : {<<>>}]
    \cup [kind : {"vehicles", "array"}, list : FeedLists]
    \cup [kind : {"other"}, list : {<<>>}]

\* err.message of the error thrown for a failed fetch
ErrorMessage(kind) ==
    CASE kind = "network" -> "Failed to fetch"
      [] kind = "http"    -> "HTTP 500"
      [] kind = "json"    -> "Unexpected token"

\* A schedule loop: the closure of one effect run.  state is "none" (the
\* effect has not run), "timer" (its timer is pending, armed with wait ms),
\* "fetching" (the timer fired and its callback awaits fetchVehicles) or
\* "cleared" (its pending timer was cleared: nothing of the loop is left).
\* interval is the settings.pollInterval its closure captured.
NoLoop == [state |-> "none", wait |-> 0, interval |-> 0]
ClearedLoop == [state |-> "cleared", wait |-> 0, interval |-> 0]

\* The state of a VehicleLayer after its constructor
LayerInit ==
    /\ groups = EmptyMap
    /\ data = EmptyMap
    /\ headingTracker = EmptyMap
    /\ lastList = <<>>
    /\ lastMatched = {}
    /\ lastRenamed = {}

\* useRoutedPath before its first effect: useState([]), useState(false),
\* useRef(null)
NoResponse == [op |-> 0, chunk |-> 0, kind |-> "none", warned |-> FALSE]
RouteIdle ==
    /\ tripStops = <<>>
    /\ routedPath = Some(<<>>)
    /\ routeLoading = FALSE
    /\ abortRef = 0
    /\ effectCtrl = 0
    /\ ops = <<>>
    /\ routeGen = 0
    /\ routeMounted = "no"
    /\ lastResponse = NoResponse

\* No call of the chunk-building loop, none of the stitch loop
ChunkIdle == cN = 0 /\ cI = 0 /\ cChunks = <<>> /\ cPc = "idle"
StitchIdle ==
    sResults = <<>> /\ sStitched = <<>> /\ sSeams = <<>> /\ sPc = "idle"

RoutingIdle == RouteIdle /\ ChunkIdle /\ StitchIdle

\* useTripStops after its first render: useState([]), useState(false),
\* useState(null), useState(null)
NoCall == [call |-> 0, kind |-> "none"]
TripIdle ==
    /\ tsTripStops = <<>>
    /\ tsLoading = FALSE
    /\ tsError = Undefined
    /\ activeTripID = Undefined
    /\ tsCalls = {}
    /\ tsCallCount = 0
    /\ tsLast = NoCall

\* No call of angleDelta or angleDiff yet
AngleIdle == aTarget = 0 /\ aCurrent = 0 /\ aDelta = 0 /\ aDiff = 0

\* No call of getRoadMatch yet
MatchIdle ==
    /\ mPc = "idle"
    /\ mFeats = <<>> /\ mPreferred = <<>> /\ mSticky = <<>> /\ mResult = <<>>

\* A layer without render nodes that has not been rendered
RenderIdle ==
    /\ rNodes = <<>>
    /\ lastRenderTime = 0
    /\ rPrev = <<>>
    /\ rDt = 0

Init ==
    /\ NormInit
    /\ LayerInit
    /\ TripIdle
    /\ AngleIdle
    /\ MatchIdle
    /\ RenderIdle
    /\ RoutingIdle
    /\ vehicles = EmptyMap
    /\ vehiclesRef = EmptyMap
    /\ lastFetch = Undefined
    /\ error = Undefined
    /\ loading = TRUE
    /\ reloading = FALSE
    /\ backoffRef = 1
    /\ timerRef = 0
    /\ pollInterval = DefaultPollInterval
    /\ effectGen = 0
    /\ loops = [g \in 1..MaxEffects |-> NoLoop]
    /\ flights = {}
    /\ consecFails = 0
    /\ lastOutcome = "none"
    /\ lastDone = <<"none", 0>>
    /\ lastKind = "none"
    /\ timerSince = FALSE

\* schedule() of the effect run g: arm a timer and store its handle
Schedule(ls, g, interval, backoff) ==
    [ls EXCEPT ![g] = [state |-> "timer",
                       wait |-> interval * MsPerSecond * backoff,
                       interval |-> interval]]

\* The effect cleanup: clearTimeout(timerRef.current); a handle whose timer
\* has fired already is cleared to no effect.  timerRef names the effect run
\* whose schedule() stored the handle last (0: none yet).
Cleanup(ls) ==
    IF timerRef # 0 /\ ls[timerRef].state = "timer"
    THEN [ls EXCEPT ![timerRef] = ClearedLoop]
    ELSE ls

\* The effect body: fetchVehicles() without await, then schedule()
RunEffect(interval) ==
    /\ effectGen < MaxEffects
    /\ effectGen' = effectGen + 1
    /\ pollInterval' = interval
    /\ flights' = flights \cup {<<"immediate", effectGen + 1>>}
    /\ loops' = Schedule(Cleanup(loops), effectGen + 1, interval, backoffRef)
    /\ timerRef' = effectGen + 1
    /\ UNCHANGED <<vehicles, vehiclesRef, lastFetch, error, loading, reloading,
                   backoffRef, consecFails, lastOutcome, lastDone, lastKind, timerSince>>

Mount ==
    /\ effectGen = 0
    /\ RunEffect(pollInterval)

\* Any change of the settings object re-creates fetchVehicles and re-runs the
\* effect; the poll interval itself may or may not have changed.
SettingsChange ==
    /\ effectGen > 0
    /\ \E interval \in PollIntervals : RunEffect(interval)

\* The timer of effect run g fires: its callback calls fetchVehicles()
TimerFire ==
    \E g \in 1..MaxEffects :
        /\ loops[g].state = "timer"
        /\ loops' = [loops EXCEPT ![g].state = "fetching", ![g].wait = 0]
        /\ flights' = flights \cup {<<"timer", g>>}
        /\ timerSince' = TRUE
        /\ UNCHANGED <<vehicles, vehiclesRef, lastFetch, error, loading,
                       reloading, backoffRef, timerRef, pollInterval,
                       effectGen, consecFails, lastOutcome, lastDone,
                       lastKind>>

\* reloadNow(): the button is disabled while reloading (SidePanel)
ReloadNow ==
    /\ effectGen > 0
    /\ ~reloading
    /\ reloading' = TRUE
    /\ flights' = flights \cup {<<"manual", 0>>}
    /\ UNCHANGED <<vehicles, vehiclesRef, lastFetch, error, loading,
                   backoffRef, timerRef, pollInterval, effectGen, loops,
                   consecFails, lastOutcome, lastDone, lastKind, timerSince>>

\* The rawList fetchVehicles extracts from a parsed body
RawListOf(outcome) ==
    IF outcome.kind \in {"vehicles", "array"} THEN outcome.list ELSE <<>>

\* A timer callback that stops after its fetch
AfterFetch_NoSchedule(f, backoff) == UNCHANGED <<loops, timerRef>>

\* The callback of the timer of run g resumes after its await: schedule()
AfterFetch(f, backoff) ==
    IF f[1] = "timer"
    THEN /\ loops' = Schedule(loops, f[2], loops[f[2]].interval, backoff)
         /\ timerRef' = f[2]
    ELSE UNCHANGED <<loops, timerRef>>

\* A backoff that doubles without the cap
FailureBackoff_NoCap(b) == b * 2

\* Math.min(backoffRef.current * 2, 12)
FailureBackoff(b) == Min(b * 2, BackoffCap)

\* try block of fetchVehicles, from the resolved fetch to the end; t is the
\* reading of Date.now()
FetchSuccess(f, outcome, t) ==
    LET newMap == normalizeVehicles(RawListOf(outcome), Some(vehiclesRef)).map
    IN  /\ vehiclesRef' = newMap
        /\ vehicles' = newMap
        /\ lastFetch' = Some(t)
        /\ error' = Undefined
        /\ loading' = FALSE
        /\ backoffRef' = 1
        /\ consecFails' = 0
        /\ lastOutcome' = "ok"
        /\ AfterFetch(f, 1)

\* A catch block that drops the canonical map, as useStops does
FetchFailure_ClearsMap(f, outcome) ==
    /\ error' = Some(ErrorMessage(outcome.kind))
    /\ loading' = FALSE
    /\ backoffRef' = FailureBackoff(backoffRef)
    /\ vehicles' = EmptyMap
    /\ vehiclesRef' = EmptyMap
    /\ UNCHANGED lastFetch
    /\ consecFails' = Min(consecFails + 1, MaxFails)
    /\ lastOutcome' = "fail"
    /\ AfterFetch(f, FailureBackoff(backoffRef))

\* catch block of fetchVehicles
FetchFailure(f, outcome) ==
    /\ error' = Some(ErrorMessage(outcome.kind))
    /\ loading' = FALSE
    /\ backoffRef' = FailureBackoff(backoffRef)
    /\ UNCHANGED <<vehicles, vehiclesRef, lastFetch>>
    /\ consecFails' = Min(consecFails + 1, MaxFails)
    /\ lastOutcome' = "fail"
    /\ AfterFetch(f, FailureBackoff(backoffRef))

\* The fetch f in flight completes; the finally block clears reloading for a
\* manual fetch.  The promise of fetchVehicles resolves in every case.
CompleteFlight(f, outcomes, maxTime) ==
    \E outcome \in outcomes, t \in OrElse(lastFetch, 0)..maxTime :
        /\ f \in flights
        /\ flights' = flights \ {f}
        /\ lastDone' = f
        /\ lastKind' = outcome.kind
        /\ timerSince' = FALSE
        /\ reloading' = IF f[1] = "manual" THEN FALSE ELSE reloading
        /\ IF outcome.kind \in FetchFailures
           THEN FetchFailure(f, outcome)
           ELSE FetchSuccess(f, outcome, t)
        /\ UNCHANGED <<pollInterval, effectGen>>

FetchCompleteOf(outcomes, maxTime) ==
    \E f \in flights : CompleteFlight(f, outcomes, maxTime)

FetchComplete == FetchCompleteOf(FetchOutcomes, MaxTime)

\* The poller under one run of the effect, with every kind of response
Next ==
    \/ (Mount /\ UNCHANGED <<matchVars, renderVars, angleVars, tripVars, normVars, layerVars, routingVars>>)
    \/ (TimerFire /\ UNCHANGED <<matchVars, renderVars, angleVars, tripVars, normVars, layerVars, routingVars>>)
    \/ (ReloadNow /\ UNCHANGED <<matchVars, renderVars, angleVars, tripVars, normVars, layerVars, routingVars>>)
    \/ (FetchComplete /\ UNCHANGED <<matchVars, renderVars, angleVars, tripVars, normVars, layerVars, routingVars>>)

Spec == Init /\ [][Next]_vars

\* The same poller when time passes and requests end: a pending timer fires
\* unless it is cleared, and every fetch in flight completes
FlightIds ==
    ({"immediate", "timer"} \X (1..MaxEffects)) \cup {<<"manual", 0>>}

PollFairness ==
    /\ \A g \in 1..MaxEffects :
          WF_vars(/\ loops[g].state = "timer"
                  /\ TimerFire
                  /\ loops'[g].state = "fetching"
                  /\ UNCHANGED <<matchVars, renderVars, angleVars, tripVars, normVars, layerVars,
                                 routingVars>>)
    /\ \A f \in FlightIds :
          WF_vars(/\ f \in flights
                  /\ CompleteFlight(f, FetchOutcomes, MaxTime)
                  /\ UNCHANGED <<matchVars, renderVars, angleVars, tripVars, normVars, layerVars,
                                 routingVars>>)

FairSpec == Spec /\ PollFairness

\* The poller under settings changes, with one failing and one successful
\* response
SchedOutcomes ==
    { [kind |-> "network", list |-> <<>>], [kind |-> "vehicles", list |-> <<>>] }

SchedFetchComplete == FetchCompleteOf(SchedOutcomes, 0)

SchedNext ==
    \/ (Mount /\ UNCHANGED <<matchVars, renderVars, angleVars, tripVars, normVars, layerVars, routingVars>>)
    \/ (SettingsChange /\ UNCHANGED <<matchVars, renderVars, angleVars, tripVars, normVars, layerVars, routingVars>>)
    \/ (TimerFire /\ UNCHANGED <<matchVars, renderVars, angleVars, tripVars, normVars, layerVars, routingVars>>)
    \/ (ReloadNow /\ UNCHANGED <<matchVars, renderVars, angleVars, tripVars, normVars, layerVars, routingVars>>)
    \/ (SchedFetchComplete /\ UNCHANGED <<matchVars, renderVars, angleVars, tripVars, normVars, layerVars, routingVars>>)

SchedSpec == Init /\ [][SchedNext]_vars

-----------------------------------------------------------------------------
(* The specification of the normalisation passes *)

PollIdle ==
    /\ vehicles = EmptyMap
    /\ vehiclesRef = EmptyMap
    /\ lastFetch = Undefined
    /\ error = Undefined
    /\ loading = TRUE
    /\ reloading = FALSE
    /\ backoffRef = 1
    /\ timerRef = 0
    /\ pollInterval = DefaultPollInterval
    /\ effectGen = 0
    /\ loops = [g \in 1..MaxEffects |-> NoLoop]
    /\ flights = {}
    /\ consecFails = 0
    /\ lastOutcome = "none"
    /\ lastDone = <<"none", 0>>
    /\ lastKind = "none"
    /\ timerSince = FALSE

NormSpecInit == NormInit /\ PollIdle /\ TripIdle /\ AngleIdle /\ MatchIdle /\ RenderIdle /\ LayerInit /\ RoutingIdle

NormNext ==
    \/ (NormPassChained /\ UNCHANGED <<matchVars, renderVars, angleVars, tripVars, pollVars, layerVars, routingVars>>)
    \/ (NormPassFresh /\ UNCHANGED <<matchVars, renderVars, angleVars, tripVars, pollVars, layerVars, routingVars>>)

NormSpec == NormSpecInit /\ [][NormNext]_vars

-----------------------------------------------------------------------------
(* VehicleLayer: heading estimation *)

\* THREE.MathUtils.degToRad(75), HEADING_WEIGHT, SWITCH_PENALTY, and the
\* ceiling 16 * 16 of getRoadMatch
MAX_DIRECTION_CONE == 75
HEADING_WEIGHT == 45
SWITCH_PENALTY == 160
MatchCeiling == 256
\* if (Math.hypot(mdx, mdz) > 2)
MoveThreshold == 2

\* Bound: vehicles per list passed to updateVehicles
MaxList == 2

\* opts.origin, in the units of the local plane (one metre)
OriginLng == 100
OriginLat == 200

\* toLocal: the Mercator x grows to the east and the Mercator y to the south,
\* both taken relative to the origin.  Over the few metres the model spans the
\* projection is linear; positions are given in units of one local metre.
toLocal(lng, lat) == <<lng - OriginLng, OriginLat - lat>>

Abs(a) == IF a < 0 THEN -a ELSE a

\* Math.atan2(y, x) in degrees, rounded to the degree, for the displacement
\* vectors of the model (axis-parallel, diagonal, or of slope 4 or 1/4)
BaseAngle(ay, ax) ==
    CASE ay = 0       -> 0
      [] ax = 0       -> 90
      [] ay = ax      -> 45
      [] ay = 4 * ax  -> 76
      [] ax = 4 * ay  -> 14

Atan2Deg(y, x) ==
    LET b == BaseAngle(Abs(y), Abs(x))
    IN  IF x = 0 /\ y = 0 THEN 0
        ELSE IF x >= 0 THEN (IF y >= 0 THEN b ELSE -b)
        ELSE (IF y >= 0 THEN 180 - b ELSE -(180 - b))

\* while (d > Math.PI) d -= 2 * Math.PI; while (d < -Math.PI) d += 2 * Math.PI
RECURSIVE WrapAngle(_)
WrapAngle(d) ==
    IF d > 180 THEN WrapAngle(d - 360)
    ELSE IF d < -180 THEN WrapAngle(d + 360)
    ELSE d

angleDelta(target, current) == WrapAngle(target - current)
angleDiff(a, b) == Abs(WrapAngle(a - b))

\* The arguments angleDelta and angleDiff are called with: forward and
\* movement headings lie in [-pi, pi), reverse headings in [0, 2 pi), and
\* targetHeading, preferredHeading and rotation.y hold such values
AngleInputs == {45 * k : k \in -4..7}

\* One call of each: angleDelta(target, current) of the render loop,
\* angleDiff(target, current) of getRoadMatch
AngleCall ==
    \E target \in AngleInputs, current \in AngleInputs :
        /\ aTarget' = target
        /\ aCurrent' = current
        /\ aDelta' = angleDelta(target, current)
        /\ aDiff' = angleDiff(target, current)

\* The road segments near a vehicle, as testSegment sees one: its segmentKey,
\* the heading of its forward direction and the squared pixel distance d2
\* from the projected vehicle to it.  queryRenderedFeatures delivers them in
\* some order; it delivers none while the layer has no map or no road layer.
Seg(key, hForward, d2) == [roadKey |-> key, hForward |-> hForward, d2 |-> d2]
SegA == Seg("A", 0, 4)
SegB == Seg("B", 90, 1)
FeatureLists == { <<>>, <<SegB, SegA>> }

\* score of testSegment, times ScoreScale = 16000.  With headingDiff in
\* degrees, (headingDiff * pi / 180 * HEADING_WEIGHT)^2 * 16000 is
\* (headingDiff * HEADING_WEIGHT)^2 * (1000 * pi^2) / 2025, and
\* 1000 * pi^2 = 9870 to the unit.
ScoreScale == 16000
PiSquaredMilli == 9870
\* x * a / b, rounded down, without leaving 32 bits
MulDiv(x, a, b) == (x \div b) * a + ((x % b) * a) \div b

\* a score without `score += SWITCH_PENALTY`
ScaledScore_NoPenalty(d2, headingDiffDeg, switched) ==
    ScoreScale * d2
    + MulDiv((headingDiffDeg * HEADING_WEIGHT)
             * (headingDiffDeg * HEADING_WEIGHT), PiSquaredMilli, 2025)

ScaledScore(d2, headingDiffDeg, switched) ==
    ScoreScale * d2
    + MulDiv((headingDiffDeg * HEADING_WEIGHT)
             * (headingDiffDeg * HEADING_WEIGHT), PiSquaredMilli, 2025)
    + (IF switched THEN ScoreScale * SWITCH_PENALTY ELSE 0)

\* testSegment: the candidate a segment makes, or Undefined when it is
\* outside the direction cone
testSegment(seg, preferredHeading, stickyRoadKey) ==
    LET hForward == seg.hForward
        hReverse == hForward + 180
        heading ==
            IF preferredHeading = Undefined THEN hForward
            ELSE IF angleDiff(hForward, preferredHeading[1])
                    <= angleDiff(hReverse, preferredHeading[1])
                 THEN hForward ELSE hReverse
        headingDiff ==
            IF preferredHeading = Undefined THEN 0
            ELSE angleDiff(heading, preferredHeading[1])
    IN  IF preferredHeading # Undefined /\ headingDiff > MAX_DIRECTION_CONE
        THEN Undefined
        ELSE Some([heading |-> heading, roadKey |-> seg.roadKey,
                   score |-> ScaledScore(seg.d2, headingDiff,
                                 stickyRoadKey # Undefined
                                 /\ seg.roadKey # stickyRoadKey[1])])

\* if (score < bestScore) { bestScore = score; ... }
Better(best, cand) ==
    IF cand # Undefined /\ (best = Undefined \/ cand[1].score < best[1].score)
    THEN cand ELSE best

\* The loop of getRoadMatch over feats[1..n]: the best candidate so far
RECURSIVE BestMatch(_, _, _, _)
BestMatch(feats, n, preferredHeading, stickyRoadKey) ==
    IF n = 0 THEN Undefined
    ELSE The({ Better(best, cand) :
                 best \in {BestMatch(feats, n - 1, preferredHeading,
                                     stickyRoadKey)},
                 cand \in {testSegment(feats[n], preferredHeading,
                                       stickyRoadKey)} })

\* getRoadMatch: the best candidate, or Undefined (null) when there is none
\* or its score is above the ceiling
getRoadMatch(feats, preferredHeading, stickyRoadKey) ==
    LET best == BestMatch(feats, Len(feats), preferredHeading, stickyRoadKey)
    IN  IF best = Undefined \/ best[1].score > ScoreScale * MatchCeiling
        THEN Undefined ELSE best

\* The vehicles drawn for updateVehicles: physical vehicle 7 under composite
\* id 7-3 at the origin and under 7-4 at 1 m and 4 m east of it, vehicle 8 at
\* one position.
\* The lists are those Array.from(vehicles.values()) can give: up to MaxList
\* vehicles of distinct composite ids, in any order.
LayerVehicle(p, s, lng, lat) ==
    normalizeVehicle(Raw(Some(p), Some(s), Some(lat), Some(lng)), Undefined)

LayerVehicles ==
    {LayerVehicle(7, 3, OriginLng, OriginLat)}
    \cup {LayerVehicle(7, 4, OriginLng + dx, OriginLat) : dx \in {1, 4}}
    \cup {LayerVehicle(8, 3, OriginLng, OriginLat - 4)}

LayerLists ==
    UNION {{l \in [1..n -> LayerVehicles] :
               \A i, j \in 1..n : i # j => l[i].id # l[j].id} : n \in 0..MaxList}

\* A new render node: buildVehicle gives rotation.y = 0 and no targetHeading
NewGroup == [rotationY |-> 0, targetHeading |-> Undefined]

\* this.headingTracker.get(v.vehicleID), looked up by the render node instead:
\* a vehicle whose composite id is new is taken for a first sighting
TrackerGet_ByNode(tracker, grps, v) ==
    IF v.id \in DOMAIN grps /\ v.vehicleID \in DOMAIN tracker
    THEN Some(tracker[v.vehicleID]) ELSE Undefined

\* this.headingTracker.get(v.vehicleID); grps, the render nodes, are not read
TrackerGet(tracker, grps, v) ==
    IF v.vehicleID \in DOMAIN tracker
    THEN Some(tracker[v.vehicleID]) ELSE Undefined

\* Math.hypot(dx, dz) > 2
Moved(dx, dz) == dx * dx + dz * dz > MoveThreshold * MoveThreshold

\* A no-match branch that stores the new position whatever the displacement
ApplyMatch_AlwaysMove(tracker, grp, lx, lz, movementHeading, roadMatch) ==
    LET newTracker ==
            IF roadMatch # Undefined
            THEN [x |-> lx, z |-> lz, heading |-> roadMatch[1].heading,
                  roadKey |-> Some(roadMatch[1].roadKey)]
            ELSE IF tracker # Undefined
            THEN (IF movementHeading # Undefined
                  THEN [tracker[1] EXCEPT !.heading = movementHeading[1],
                                          !.x = lx, !.z = lz]
                  ELSE [tracker[1] EXCEPT !.x = lx, !.z = lz])
            ELSE [x |-> lx, z |-> lz, heading |-> 0, roadKey |-> Undefined]
    IN  [tracker |-> newTracker,
         grp |-> [rotationY |-> IF roadMatch # Undefined /\ tracker = Undefined
                                THEN roadMatch[1].heading ELSE grp.rotationY,
                  targetHeading |-> Some(newTracker.heading)],
         matched |-> roadMatch # Undefined]

\* Lines 529-565 of updateVehicles: the tracker entry and the render node of
\* a vehicle at (lx, lz), given its tracker entry (or Undefined), its render
\* node, its movement heading and the road match (or Undefined)
ApplyMatch(tracker, grp, lx, lz, movementHeading, roadMatch) ==
    LET newTracker ==
            IF roadMatch # Undefined
            THEN [x |-> lx, z |-> lz, heading |-> roadMatch[1].heading,
                  roadKey |-> Some(roadMatch[1].roadKey)]
            ELSE IF tracker # Undefined
            THEN (IF movementHeading # Undefined
                  THEN [tracker[1] EXCEPT !.heading = movementHeading[1],
                                          !.x = lx, !.z = lz]
                  ELSE tracker[1])
            ELSE [x |-> lx, z |-> lz, heading |-> 0, roadKey |-> Undefined]
    IN  [tracker |-> newTracker,
         grp |-> [rotationY |-> IF roadMatch # Undefined /\ tracker = Undefined
                                THEN roadMatch[1].heading ELSE grp.rotationY,
                  targetHeading |-> Some(newTracker.heading)],
         matched |-> roadMatch # Undefined]

\* Lines 509-565 of updateVehicles: the heading of a vehicle at (lx, lz) whose
\* road features are feats
UpdateHeading(tracker, grp, lx, lz, feats) ==
    LET movementHeading ==
            IF tracker # Undefined /\ Moved(lx - tracker[1].x, lz - tracker[1].z)
            THEN Some(-Atan2Deg(lz - tracker[1].z, lx - tracker[1].x))
            ELSE Undefined
        preferredHeading ==
            IF movementHeading # Undefined THEN movementHeading
            ELSE IF tracker # Undefined THEN Some(tracker[1].heading)
            ELSE Undefined
    IN  The({ ApplyMatch(tracker, grp, lx, lz, movementHeading, roadMatch) :
                roadMatch \in
                    {getRoadMatch(feats, preferredHeading,
                                  IF tracker # Undefined
                                  THEN tracker[1].roadKey ELSE Undefined)} })

\* The body of the for loop of updateVehicles for one vehicle v, whose road
\* features are feats; st holds groups, tracker, data and the matched ids
UpdateOne(st, v, feats) ==
    LET loc == toLocal(v.longitude, v.latitude)
        grp == IF v.id \in DOMAIN st.groups THEN st.groups[v.id] ELSE NewGroup
    IN  The({ [groups  |-> MapSet(st.groups, v.id, h.grp),
               tracker |-> MapSet(st.tracker, v.vehicleID, h.tracker),
               data    |-> MapSet(st.data, v.id, v),
               matched |-> IF h.matched THEN st.matched \cup {v.id}
                           ELSE st.matched] :
                h \in {UpdateHeading(TrackerGet(st.tracker, st.groups, v),
                                     grp, loc[1], loc[2], feats)} })

\* The for loop of updateVehicles over vehicles[1..n]
RECURSIVE UpdateLoop(_, _, _, _)
UpdateLoop(st, list, featsOf, n) ==
    IF n = 0 THEN st
    ELSE The({ UpdateOne(prev, list[n], featsOf[n]) :
                 prev \in {UpdateLoop(st, list, featsOf, n - 1)} })

\* m without the keys outside keep
Restrict(m, keep) == [k \in DOMAIN m \cap keep |-> m[k]]

\* The heading-tracker clean-up left out
CleanTracker_Keep(tracker, list) == tracker

\* clean up heading tracker for vehicleIDs no longer in the dataset
CleanTracker(tracker, list) ==
    Restrict(tracker, {list[i].vehicleID : i \in 1..Len(list)})

\* The samples of physical vehicle p in a list
SamplesOf(p, list) == {i \in 1..Len(list) : list[i].vehicleID = p}

\* Physical vehicle p is in the list, and only under composite ids that have
\* no record yet
Renamed(p, list) ==
    /\ SamplesOf(p, list) # {}
    /\ \A i \in SamplesOf(p, list) : list[i].id \notin DOMAIN data

\* updateVehicles(list), the road features near list[i] being featsOf[i]
updateVehicles(list, featsOf) ==
    \E st \in {UpdateLoop([groups |-> groups, tracker |-> headingTracker,
                           data |-> data, matched |-> {}],
                          list, featsOf, Len(list))} :
    LET alive == {list[i].id : i \in 1..Len(list)}
    IN  /\ groups' = Restrict(st.groups, alive)
        /\ data' = [k \in (DOMAIN st.data) \ ((DOMAIN st.groups) \ alive)
                      |-> st.data[k]]
        /\ headingTracker' = CleanTracker(st.tracker, list)
        /\ lastList' = list
        /\ lastMatched' = st.matched
        /\ lastRenamed' = {p \in DOMAIN headingTracker : Renamed(p, list)}

UpdateVehicles ==
    \E list \in LayerLists :
        \E featsOf \in [1..Len(list) -> FeatureLists] :
            updateVehicles(list, featsOf)

LayerSpecInit == NormInit /\ PollIdle /\ TripIdle /\ AngleIdle /\ MatchIdle /\ RenderIdle /\ LayerInit /\ RoutingIdle

LayerNext ==
    \/ (UpdateVehicles /\ UNCHANGED <<matchVars, renderVars, angleVars, tripVars, normVars, pollVars, routingVars>>)

LayerSpec == LayerSpecInit /\ [][LayerNext]_vars

\* The layer fed with vehicles that turn: physical vehicle 7 moving east and
\* west along the road of segment A, physical vehicle 8 moving north and
\* south along the road of segment B
TurningVehicles ==
    {LayerVehicle(7, 3, OriginLng + dx, OriginLat) : dx \in {0, 4}}
    \cup {LayerVehicle(8, 3, OriginLng, OriginLat - dz) : dz \in {0, 4}}

TurningLists ==
    UNION {{l \in [1..n -> TurningVehicles] :
               \A i, j \in 1..n : i # j => l[i].id # l[j].id} : n \in 0..MaxList}

UpdateTurning ==
    \E list \in TurningLists :
        \E featsOf \in [1..Len(list) -> FeatureLists] :
            updateVehicles(list, featsOf)

HeadingNext ==
    \/ (UpdateTurning /\ UNCHANGED <<matchVars, renderVars, angleVars, tripVars, normVars, pollVars, routingVars>>)

HeadingSpec == LayerSpecInit /\ [][HeadingNext]_vars

\* The angle functions called with every pair of arguments
AngleSpecInit ==
    NormInit /\ PollIdle /\ TripIdle /\ AngleIdle /\ MatchIdle /\ RenderIdle /\ LayerInit /\ RoutingIdle

AngleNext ==
    \/ (AngleCall
        /\ UNCHANGED <<matchVars, renderVars, tripVars, normVars, pollVars,
                       layerVars, routingVars>>)

AngleSpec == AngleSpecInit /\ [][AngleNext]_vars

\* getRoadMatch called on its own.  The segments: P under the vehicle and Q
\* parallel to it at d2 = 160, R across, S at 10 degrees to P, U at the
\* ceiling distance and T one beyond it, V drawn in the opposite direction.
\* The features hold up to MaxFeats of them, in any order.
MaxFeats == 2
MatchSegs ==
    {Seg("P", 0, 0), Seg("Q", 0, 160), Seg("R", 90, 1), Seg("S", 10, 96),
     Seg("T", 0, 257), Seg("U", 0, 256), Seg("V", -170, 4)}
MatchFeatureLists ==
    UNION {{l \in [1..n -> MatchSegs] :
               \A i, j \in 1..n : i # j => l[i] # l[j]} : n \in 0..MaxFeats}

\* preferredHeading is null on a first sighting that has not moved, and then
\* there is no tracker entry to take a sticky key from (part_002:510-527);
\* the sticky key may be that of a segment no longer among the features
MatchPreferred == {Undefined, Some(0), Some(15), Some(80)}
MatchSticky == {Undefined, Some("P"), Some("Q"), Some("Z")}

\* getRoadMatch entered with its arguments and the features queried
MatchArgs ==
    /\ mPc = "args"
    /\ mFeats \in MatchFeatureLists
    /\ mPreferred \in MatchPreferred
    /\ mSticky \in MatchSticky
    /\ mSticky # Undefined => mPreferred # Undefined
    /\ mResult = Undefined

\* ... and returning
MatchCall ==
    /\ mPc = "args"
    /\ mPc' = "done"
    /\ mResult' = getRoadMatch(mFeats, mPreferred, mSticky)
    /\ UNCHANGED <<mFeats, mPreferred, mSticky>>

MatchSpecInit ==
    NormInit /\ PollIdle /\ TripIdle /\ AngleIdle /\ MatchArgs /\ RenderIdle /\ LayerInit /\ RoutingIdle

MatchNext ==
    \/ (MatchCall
        /\ UNCHANGED <<renderVars, angleVars, tripVars, normVars, pollVars,
                       layerVars, routingVars>>)

MatchSpec == MatchSpecInit /\ [][MatchNext]_vars

-----------------------------------------------------------------------------
(* The render callback of the custom layer: the turn of every node *)

\* rotation.y is kept in thousandths of a degree and time in 1/6000 s (six
\* units to the millisecond), so that the first-frame dt of 1/60 s, the cap
\* of 0.1 s and dt * TURN_SMOOTHING are whole numbers; a product that is not
\* whole is cut towards zero.
MAX_TURN_RATE == 120
TURN_SMOOTHING == 6
MilliDeg == 1000
UnitsPerSecond == 6000
FirstFrameDt == 100
DtCap == 600

TruncDiv(a, b) == IF a >= 0 THEN a \div b ELSE -((-a) \div b)

\* angleDelta on thousandths of a degree
RECURSIVE WrapMilli(_)
WrapMilli(d) ==
    IF d > 180 * MilliDeg THEN WrapMilli(d - 360 * MilliDeg)
    ELSE IF d < -180 * MilliDeg THEN WrapMilli(d + 360 * MilliDeg)
    ELSE d

\* const dt = lastRenderTime > 0 ? Math.min((now - lastRenderTime) / 1000, 0.1)
\*                               : 1 / 60
RenderDt(now) ==
    IF lastRenderTime > 0 THEN Min(now - lastRenderTime, DtCap)
    ELSE FirstFrameDt

\* a turn of desiredStep, not clamped to maxStep
TurnStep_Unclamped(delta, dt) ==
    TruncDiv(delta * Min(UnitsPerSecond, dt * TURN_SMOOTHING), UnitsPerSecond)

\* desiredStep, maxStep and turnStep of one node
TurnStep(delta, dt) ==
    LET desiredStep ==
            TruncDiv(delta * Min(UnitsPerSecond, dt * TURN_SMOOTHING),
                     UnitsPerSecond)
        maxStep == (MAX_TURN_RATE * MilliDeg * dt) \div UnitsPerSecond
    IN  Max(-maxStep, Min(maxStep, desiredStep))

\* The target of a node, the displayed heading itself when there is none
TargetOf(node) ==
    IF IsDefined(node.targetHeading)
    THEN node.targetHeading[1] * MilliDeg ELSE node.rotationY

TurnNode(node, dt) ==
    [node EXCEPT !.rotationY =
        @ + TurnStep(WrapMilli(TargetOf(node) - node.rotationY), dt)]

\* The clock: performance.now() grows by 50 or 150 ms from one render call
\* to the next and is read up to MaxRenderTime
MaxRenderTime == 1200
Elapsed == {300, 900}

\* render(): every node turns towards its target
Render ==
    \E e \in Elapsed :
        LET now == lastRenderTime + e
            dt == RenderDt(now)
        IN  /\ now <= MaxRenderTime
            /\ lastRenderTime' = now
            /\ rNodes' = [k \in DOMAIN rNodes |-> TurnNode(rNodes[k], dt)]
            /\ rPrev' = rNodes
            /\ rDt' = dt

\* What updateVehicles leaves in a node (part_002:505-565): a new node has
\* rotation.y 0, or the heading of the road matched at its first sighting;
\* a node that exists gets a new targetHeading only.  The headings are
\* those of HeadingSpec, a reverse heading of 270 degrees among them.
RenderIds == {"7-3", "8-3"}
RenderHeadings == {-180, 45, 270}

PlaceNode ==
    \E k \in RenderIds, h \in RenderHeadings, matched \in BOOLEAN :
        /\ rNodes' =
              IF k \in DOMAIN rNodes
              THEN [rNodes EXCEPT ![k].targetHeading = Some(h)]
              ELSE [j \in DOMAIN rNodes \cup {k} |->
                      IF j = k
                      THEN [rotationY |-> IF matched THEN h * MilliDeg ELSE 0,
                            targetHeading |-> Some(h)]
                      ELSE rNodes[j]]
        /\ UNCHANGED <<lastRenderTime, rPrev, rDt>>

RenderSpecInit ==
    NormInit /\ PollIdle /\ TripIdle /\ AngleIdle /\ MatchIdle /\ RenderIdle /\ LayerInit /\ RoutingIdle

RenderNext ==
    \/ (Render
        /\ UNCHANGED <<matchVars, angleVars, tripVars, normVars, pollVars,
                       layerVars, routingVars>>)
    \/ (PlaceNode
        /\ UNCHANGED <<matchVars, angleVars, tripVars, normVars, pollVars,
                       layerVars, routingVars>>)

RenderSpec == RenderSpecInit /\ [][RenderNext]_vars

-----------------------------------------------------------------------------
(* fetchChunkedRoute: the chunk-building loop *)

MAX_WAYPOINTS == 80
CHUNK_OVERLAP == 2

\* The largest number of waypoints the loop is run on
MaxWaypointCount == 245

\* const end = Math.min(i + MAX_WAYPOINTS, waypoints.length)
ChunkEnd(i, n) == Min(i + MAX_WAYPOINTS, n)

\* The next chunk starting where the last one ended, without overlap
NextStart_NoOverlap(end) == end

\* i = end - CHUNK_OVERLAP
NextStart(end) == end - CHUNK_OVERLAP

\* The while loop from index i on, for n waypoints: the chunks it pushes, each
\* waypoints.slice(i, end) given as <<i, end>>
RECURSIVE ChunkLoop(_, _)
ChunkLoop(i, n) ==
    IF i < n
    THEN IF ChunkEnd(i, n) >= n
         THEN << <<i, ChunkEnd(i, n)>> >>
         ELSE << <<i, ChunkEnd(i, n)>> >> \o ChunkLoop(NextStart(ChunkEnd(i, n)), n)
    ELSE <<>>

\* The slices of the waypoints that fetchChunkedRoute sends, request by request
RequestRanges(n) ==
    IF n <= MAX_WAYPOINTS THEN << <<0, n>> >> ELSE ChunkLoop(0, n)

\* waypoints.slice(range[1], range[2])
Slice(s, range) == SubSeq(s, range[1] + 1, range[2])

\* fetchChunkedRoute is called with n >= 2 waypoints (useRoutedPath returns
\* before it for fewer)
ChunkInit ==
    /\ cN \in 2..MaxWaypointCount
    /\ cI = 0
    /\ cChunks = <<>>
    /\ cPc = "start"

\* if (waypoints.length <= MAX_WAYPOINTS) return fetchOSRMRoute(waypoints)
ChunkSingle ==
    /\ cPc = "start"
    /\ cN <= MAX_WAYPOINTS
    /\ cChunks' = << <<0, cN>> >>
    /\ cPc' = "done"
    /\ UNCHANGED <<cN, cI>>

\* const chunks = []; let i = 0
ChunkEnter ==
    /\ cPc = "start"
    /\ cN > MAX_WAYPOINTS
    /\ cI' = 0
    /\ cChunks' = <<>>
    /\ cPc' = "loop"
    /\ UNCHANGED cN

\* One test of the while condition and, if it holds, one pass of the body
ChunkStep ==
    /\ cPc = "loop"
    /\ IF cI < cN
       THEN /\ cChunks' = Append(cChunks, <<cI, ChunkEnd(cI, cN)>>)
            /\ IF ChunkEnd(cI, cN) >= cN
               THEN cPc' = "done" /\ cI' = cI
               ELSE cPc' = "loop" /\ cI' = NextStart(ChunkEnd(cI, cN))
       ELSE cPc' = "done" /\ UNCHANGED <<cI, cChunks>>
    /\ UNCHANGED cN

ChunkSpecInit ==
    NormInit /\ PollIdle /\ TripIdle /\ AngleIdle /\ MatchIdle /\ RenderIdle /\ LayerInit /\ RouteIdle /\ StitchIdle /\ ChunkInit

ChunkNext ==
    \/ (ChunkSingle
        /\ UNCHANGED <<matchVars, renderVars, angleVars, tripVars, normVars, pollVars, layerVars, routeVars, stitchVars>>)
    \/ (ChunkEnter
        /\ UNCHANGED <<matchVars, renderVars, angleVars, tripVars, normVars, pollVars, layerVars, routeVars, stitchVars>>)
    \/ (ChunkStep
        /\ UNCHANGED <<matchVars, renderVars, angleVars, tripVars, normVars, pollVars, layerVars, routeVars, stitchVars>>)

\* The loop is synchronous code: once entered it runs on
ChunkSpec == ChunkSpecInit /\ [][ChunkNext]_vars /\ WF_vars(ChunkNext)

-----------------------------------------------------------------------------
(* fetchChunkedRoute: the stitch loop *)

\* Coordinates are counted in units of 0.00005 degrees, so that the
\* tolerance 0.0001 of the stitch loop is 2 units
ToleranceUnits == 2
ScanLimit == 50

\* The longest run of points before the first point near the seam
MaxLead == 51

\* Math.hypot(dx, dy) < 0.0001
Near(p, q) ==
    (p[1] - q[1]) * (p[1] - q[1]) + (p[2] - q[2]) * (p[2] - q[2])
        < ToleranceUnits * ToleranceUnits

\* The inner for loop from j on: startIdx when it ends.  j counts from 0, as
\* in the code; g[j + 1] is results[c][j].
RECURSIVE ScanLoop(_, _, _, _)
ScanLoop(g, lastPt, j, startIdx) ==
    IF j < Min(ScanLimit, Len(g))
    THEN ScanLoop(g, lastPt, j + 1,
                  IF Near(g[j + 1], lastPt) THEN j + 1 ELSE startIdx)
    ELSE startIdx

\* A TypeError thrown in the stitch loop
StitchThrown == [ok |-> FALSE, path |-> <<>>, seams |-> <<>>]

\* The outer for loop from results[c] on (c counts from 1 here), stitched
\* being the path so far.  results[c] is Some(geometry), or Undefined when
\* the response had no coordinates: reading its length throws, and so does
\* reading lastPt[0] when stitched is empty.  seams records, for each later
\* chunk, how many points were stitched before it and its startIdx.
RECURSIVE StitchLoop(_, _, _, _)
StitchLoop(results, c, stitched, seams) ==
    IF c > Len(results)
    THEN [ok |-> TRUE, path |-> stitched, seams |-> seams]
    ELSE IF results[c] = Undefined THEN StitchThrown
    ELSE IF stitched = <<>>
    THEN (IF results[c][1] = <<>>
          THEN StitchLoop(results, c + 1, stitched,
                          Append(seams, [before |-> 0, startIdx |-> 0]))
          ELSE StitchThrown)
    ELSE The({ StitchLoop(results, c + 1,
                          stitched \o SubSeq(results[c][1], startIdx + 1,
                                             Len(results[c][1])),
                          Append(seams, [before |-> Len(stitched),
                                         startIdx |-> startIdx])) :
                 startIdx \in {ScanLoop(results[c][1],
                                        stitched[Len(stitched)], 0, 0)} })

\* const stitched = [...results[0]]; for (c = 1; ...) ...; return stitched
Stitch(results) ==
    IF results[1] = Undefined THEN StitchThrown
    ELSE StitchLoop(results, 2, results[1][1], <<>>)

\* The geometries the stitch loop is run on.  The first chunk's geometry
\* ends at SeamPoint.  A later chunk's geometry is given by a pattern: "N" a
\* point 0.00005 degrees from SeamPoint, "Z" SeamPoint itself, "F" a point
\* far from it; it has up to MaxLead far points before the first near one.
SeamPoint == <<0, 0>>
FirstGeometry == << <<-10, 0>>, SeamPoint >>
PatternPoint(sym, j) ==
    CASE sym = "N" -> <<1, 0>>
      [] sym = "Z" -> SeamPoint
      [] sym = "F" -> <<10 + j, 5>>
Geometry(pattern) == [j \in 1..Len(pattern) |-> PatternPoint(pattern[j], j)]
Lead(k) == [j \in 1..k |-> "F"]
Bodies ==
    { <<>>, <<"N">>, <<"N", "F">>, <<"N", "N", "F">>, <<"Z", "F">>,
      <<"N", "F", "N", "F">> }
LaterGeometries ==
    {Geometry(Lead(k) \o b) : k \in 0..MaxLead, b \in Bodies} \ {<<>>}
StitchInputs ==
    {<<Some(FirstGeometry), Some(g)>> : g \in LaterGeometries}

StitchInit ==
    /\ sResults \in StitchInputs
    /\ sStitched = <<>>
    /\ sSeams = <<>>
    /\ sPc = "start"

\* The stitch loop, run on sResults
StitchRun ==
    /\ sPc = "start"
    /\ \E r \in {Stitch(sResults)} :
          /\ sStitched' = r.path
          /\ sSeams' = r.seams
          /\ sPc' = IF r.ok THEN "done" ELSE "thrown"
    /\ UNCHANGED sResults

StitchSpecInit ==
    NormInit /\ PollIdle /\ TripIdle /\ AngleIdle /\ MatchIdle /\ RenderIdle /\ LayerInit /\ RouteIdle /\ ChunkIdle /\ StitchInit

StitchNext ==
    \/ (StitchRun
        /\ UNCHANGED <<matchVars, renderVars, angleVars, tripVars, normVars, pollVars, layerVars, routeVars, chunkVars>>)

StitchSpec == StitchSpecInit /\ [][StitchNext]_vars

-----------------------------------------------------------------------------
(* useRoutedPath and fetchOSRMRoute *)

\* The largest number of runs of the effect of useRoutedPath
MaxRouteEffects == 2

\* A TripStop, and the stop lists the hook is given: none, one, two or three
\* stops, and one more than a request takes.  Stops lie 10 units apart.
Stop(lng, lat) == [longitude |-> lng, latitude |-> lat]
StopsFrom(base, n) == [i \in 1..n |-> Stop(base + 10 * i, 0)]
StopLists ==
    { StopsFrom(0, 0), StopsFrom(0, 1), StopsFrom(0, 2), StopsFrom(2000, 3),
      StopsFrom(0, MAX_WAYPOINTS + 1) }

\* tripStops.map((ts) => [ts.longitude, ts.latitude])
Waypoints(stops) ==
    [i \in 1..Len(stops) |-> <<stops[i].longitude, stops[i].latitude>>]

\* The ways a request of fetchOSRMRoute throws: fetch rejects, !res.ok,
\* res.json() rejects, data.code !== 'Ok', no data.routes[0], and a route
\* without geometry (reading .coordinates of undefined)
RequestFailures ==
    {"network", "http", "json", "code", "noRoute", "noGeometry"}

\* A road geometry through the waypoints wp: every waypoint and the midpoint
\* of every leg, all moved dy units north
Road(wp, dy) ==
    [k \in 1..(2 * Len(wp) - 1) |->
        IF k % 2 = 1
        THEN <<wp[(k + 1) \div 2][1], wp[(k + 1) \div 2][2] + dy>>
        ELSE <<(wp[k \div 2][1] + wp[k \div 2 + 1][1]) \div 2,
               (wp[k \div 2][2] + wp[k \div 2 + 1][2]) \div 2 + dy>>]

\* The responses to a request for the waypoints wp: a failure, a route with
\* a geometry, or a route whose geometry has no coordinates
OsrmResponses(wp) ==
    {[kind |-> k, geometry |-> Undefined] : k \in RequestFailures}
    \cup {[kind |-> "ok", geometry |-> Some(Road(wp, dy))] : dy \in {0, 1}}
    \cup {[kind |-> "noCoordinates", geometry |-> Undefined]}

\* fetchOSRMRoute: the promise rejects with err, or resolves with
\* data.routes[0].geometry.coordinates
fetchOSRMRoute(resp) ==
    IF resp.kind \in RequestFailures
    THEN [ok |-> FALSE, value |-> Undefined, err |-> resp.kind]
    ELSE [ok |-> TRUE, value |-> resp.geometry, err |-> "none"]

\* fetchChunkedRoute once every request has resolved with results
fetchChunkedRoute(waypoints, results) ==
    IF Len(waypoints) <= MAX_WAYPOINTS
    THEN [ok |-> TRUE, value |-> results[1], err |-> "none"]
    ELSE The({ IF st.ok
               THEN [ok |-> TRUE, value |-> Some(st.path), err |-> "none"]
               ELSE [ok |-> FALSE, value |-> Undefined, err |-> "TypeError"] :
                 st \in {Stitch(results)} })

\* A route operation: one effect run's ctrl, waypoints and fetchChunkedRoute
NewOp(gen, waypoints) ==
    [gen |-> gen, waypoints |-> waypoints,
     ranges |-> RequestRanges(Len(waypoints)),
     aborted |-> FALSE, results |-> <<>>, state |-> "running"]

\* ctrl.abort(), for the operation numbered o (0: there is none)
Abort(os, o) == IF o = 0 THEN os ELSE [os EXCEPT ![o].aborted = TRUE]

\* The effect of useRoutedPath, run for stops after the clean-up (if any)
\* of the run before has left the operations os
RunRouteEffect(os, stops) ==
    /\ tripStops' = stops
    /\ routeGen' = routeGen + 1
    /\ IF Len(stops) < 2
       THEN /\ routedPath' = Some(<<>>)
            /\ routeLoading' = FALSE
            /\ effectCtrl' = 0
            /\ abortRef' = abortRef
            /\ ops' = Abort(os, abortRef)
       ELSE /\ routedPath' = routedPath
            /\ routeLoading' = TRUE
            /\ effectCtrl' = Len(os) + 1
            /\ abortRef' = Len(os) + 1
            /\ ops' = Append(Abort(os, abortRef),
                             NewOp(routeGen + 1, Waypoints(stops)))
    /\ UNCHANGED lastResponse

RouteMount ==
    /\ routeMounted = "no"
    /\ routeMounted' = "yes"
    /\ \E stops \in StopLists : RunRouteEffect(ops, stops)

\* tripStops is a new array (of the same or of other stops): the clean-up of
\* the last effect run, then the effect
StopsChange ==
    /\ routeMounted = "yes"
    /\ routeGen < MaxRouteEffects
    /\ \E stops \in StopLists : RunRouteEffect(Abort(ops, effectCtrl), stops)
    /\ UNCHANGED routeMounted

\* Unmount: the clean-up of the last effect run
RouteUnmount ==
    /\ routeMounted = "yes"
    /\ routeMounted' = "gone"
    /\ ops' = Abort(ops, effectCtrl)
    /\ UNCHANGED <<tripStops, routedPath, routeLoading, abortRef, effectCtrl,
                   routeGen, lastResponse>>

\* The handlers write whether or not the operation was aborted
Applies_Always(op) == TRUE

\* !ctrl.signal.aborted
Applies(op) == ~op.aborted

\* The catch handler surfacing an empty path
CatchPath_Empty(waypoints) == <<>>

\* setRoutedPath(waypoints) of the catch handler
CatchPath(waypoints) == waypoints

\* The then, catch and finally handlers of operation o, whose record is op,
\* when fetchChunkedRoute settles with result; resp is the response that made
\* it settle
Settle(o, op, result, resp) ==
    /\ ops' = [ops EXCEPT ![o] =
                 [op EXCEPT !.state = IF result.ok THEN "resolved"
                                      ELSE "rejected"]]
    /\ lastResponse' = [resp EXCEPT !.warned = Applies(op) /\ ~result.ok]
    /\ IF Applies(op)
       THEN /\ routedPath' = IF result.ok THEN result.value
                             ELSE Some(CatchPath(op.waypoints))
            /\ routeLoading' = FALSE
       ELSE UNCHANGED <<routedPath, routeLoading>>

\* The responses when the router may also snap the waypoints to a road that
\* runs dy units north of the stops, for dy in snaps
SnappedResponses(snaps, wp) ==
    OsrmResponses(wp)
    \cup {[kind |-> "ok", geometry |-> Some(Road(wp, dy))] : dy \in snaps}

\* The response to the request in flight of a running operation arrives.
\* The requests are not given the abort signal, so those of an aborted
\* operation are answered like the others.
RouteResponseOf(snaps) ==
    \E o \in DOMAIN ops :
        /\ ops[o].state = "running"
        /\ \E resp \in SnappedResponses(snaps, Slice(ops[o].waypoints,
                                          ops[o].ranges[Len(ops[o].results) + 1])) :
           \E r \in {fetchOSRMRoute(resp)} :
           \E op \in {[ops[o] EXCEPT !.results = Append(@, r.value)]} :
           \E this \in {[op |-> o, chunk |-> Len(op.results),
                         kind |-> resp.kind, warned |-> FALSE]} :
              IF ~r.ok THEN Settle(o, ops[o], r, this)
              ELSE IF Len(op.results) < Len(op.ranges)
              THEN /\ ops' = [ops EXCEPT ![o] = op]
                   /\ lastResponse' = this
                   /\ UNCHANGED <<routedPath, routeLoading>>
              ELSE Settle(o, op, fetchChunkedRoute(op.waypoints, op.results),
                          this)
        /\ UNCHANGED <<tripStops, abortRef, effectCtrl, routeGen, routeMounted>>

RouteResponse == RouteResponseOf({})

RouteSpecInit ==
    NormInit /\ PollIdle /\ TripIdle /\ AngleIdle /\ MatchIdle /\ RenderIdle /\ LayerInit /\ RoutingIdle

RouteNext ==
    \/ (RouteMount
        /\ UNCHANGED <<matchVars, renderVars, angleVars, tripVars, normVars, pollVars, layerVars, chunkVars, stitchVars>>)
    \/ (StopsChange
        /\ UNCHANGED <<matchVars, renderVars, angleVars, tripVars, normVars, pollVars, layerVars, chunkVars, stitchVars>>)
    \/ (RouteUnmount
        /\ UNCHANGED <<matchVars, renderVars, angleVars, tripVars, normVars, pollVars, layerVars, chunkVars, stitchVars>>)
    \/ (RouteResponse
        /\ UNCHANGED <<matchVars, renderVars, angleVars, tripVars, normVars, pollVars, layerVars, chunkVars, stitchVars>>)

RouteSpec == RouteSpecInit /\ [][RouteNext]_vars

\* The hook when the router may also snap the waypoints to a road that runs
\* SnapOffset units (0.00015 degrees, some 17 m) north of the stops: the
\* geometry of a route starts and ends on the road, not at the stops
SnapOffset == 3

SnapResponse == RouteResponseOf({SnapOffset})

SnapNext ==
    \/ (RouteMount
        /\ UNCHANGED <<matchVars, renderVars, angleVars, tripVars, normVars, pollVars, layerVars, chunkVars, stitchVars>>)
    \/ (StopsChange
        /\ UNCHANGED <<matchVars, renderVars, angleVars, tripVars, normVars, pollVars, layerVars, chunkVars, stitchVars>>)
    \/ (RouteUnmount
        /\ UNCHANGED <<matchVars, renderVars, angleVars, tripVars, normVars, pollVars, layerVars, chunkVars, stitchVars>>)
    \/ (SnapResponse
        /\ UNCHANGED <<matchVars, renderVars, angleVars, tripVars, normVars, pollVars, layerVars, chunkVars, stitchVars>>)

SnapSpec == RouteSpecInit /\ [][SnapNext]_vars

-----------------------------------------------------------------------------
(* useTripStops: the stops of the trip the user selected *)

MaxTripCalls == 3   \* calls of fetchTripStops that reach the network

\* tripID arguments: App calls fetchTripStops only with a truthy v.tripID, and
\* fetchTripStops returns at once for a falsy one
TripIds == {0, 41, 42}

\* A row of a trip_stops body and the TripStop toStop makes of it: a row
\* without coordinates gives null, a missing stopOrder becomes 0
Row(order, lat, lng) == [stopOrder |-> order, latitude |-> lat, longitude |-> lng]
toStop(row) ==
    IF IsDefined(row.latitude) /\ IsDefined(row.longitude)
    THEN Some([stopOrder |-> OrElse(row.stopOrder, 0),
               latitude |-> row.latitude[1],
               longitude |-> row.longitude[1]])
    ELSE Undefined

\* rawStops.map(toStop).filter(stop !== null)
RECURSIVE MapFilterStops(_)
MapFilterStops(rows) ==
    IF rows = <<>> THEN <<>>
    ELSE toStop(Head(rows)) \o MapFilterStops(Tail(rows))

\* .sort((a, b) => a.stopOrder - b.stopOrder): a stable sort
RECURSIVE InsertStop(_, _)
InsertStop(sorted, stop) ==
    IF sorted = <<>> THEN <<stop>>
    ELSE IF Head(sorted).stopOrder <= stop.stopOrder
         THEN <<Head(sorted)>> \o InsertStop(Tail(sorted), stop)
         ELSE <<stop>> \o sorted

RECURSIVE SortStops(_)
SortStops(stops) ==
    IF stops = <<>> THEN <<>>
    ELSE InsertStop(SortStops(SubSeq(stops, 1, Len(stops) - 1)),
                    stops[Len(stops)])

\* A parsed body is an array, an object holding an array under one of the
\* keys tripStops, stops, data, result, or anything else
ArrayKinds == {"array", "tripStops", "stops", "data", "result"}
parseTripStops(body) ==
    SortStops(MapFilterStops(IF body.kind \in ArrayKinds
                             THEN body.rows ELSE <<>>))

TripRows ==
    { <<>>,
      <<Row(Some(2), Some(20), Some(10)), Row(Some(1), Some(21), Some(11))>>,
      <<Row(Undefined, Some(30), Some(12)), Row(Some(1), Undefined, Some(13))>> }

\* What fetch(...) and res.json() deliver to a call of fetchTripStops
TripFailures == {"network", "http", "json"}
TripResponses ==
    [kind : TripFailures, rows : {<<>>}]
    \cup [kind : {"array", "tripStops"}, rows : TripRows]
    \cup [kind : {"other"}, rows : {<<>>}]

NoRouteData == "No route data available for this trip."

\* fetchTripStops(tripID) up to its first await; its closure holds the
\* activeTripID of the render that created it, and App calls the function of
\* the latest render
FetchTripStops ==
    \E tripID \in TripIds :
        /\ tripID # 0
        /\ IF activeTripID = Some(tripID)
           THEN /\ tsTripStops' = <<>>
                /\ activeTripID' = Undefined
                /\ tsError' = Undefined
                /\ UNCHANGED <<tsLoading, tsCalls, tsCallCount, tsLast>>
           ELSE /\ tsCallCount < MaxTripCalls
                /\ tsLoading' = TRUE
                /\ tsError' = Undefined
                /\ activeTripID' = Some(tripID)
                /\ tsCallCount' = tsCallCount + 1
                /\ tsCalls' = tsCalls \cup
                                {[call |-> tsCallCount + 1, trip |-> tripID]}
                /\ UNCHANGED <<tsTripStops, tsLast>>

\* clearTripStops()
ClearTripStops ==
    /\ tsTripStops' = <<>>
    /\ activeTripID' = Undefined
    /\ tsError' = Undefined
    /\ UNCHANGED <<tsLoading, tsCalls, tsCallCount, tsLast>>

\* The rest of fetchTripStops: try, catch and finally
TripResponse ==
    \E c \in tsCalls, resp \in TripResponses :
        /\ tsCalls' = tsCalls \ {c}
        /\ tsLast' = [call |-> c.call, kind |-> resp.kind]
        /\ IF resp.kind \in TripFailures
           THEN /\ tsError' = Some(ErrorMessage(resp.kind))
                /\ tsTripStops' = <<>>
           ELSE \E normalized \in {parseTripStops(resp)} :
                    /\ tsTripStops' = normalized
                    /\ tsError' = IF Len(normalized) = 0
                                  THEN Some(NoRouteData) ELSE tsError
        /\ tsLoading' = FALSE
        /\ UNCHANGED <<activeTripID, tsCallCount>>

TripSpecInit == NormInit /\ PollIdle /\ TripIdle /\ AngleIdle /\ MatchIdle /\ RenderIdle /\ LayerInit /\ RoutingIdle

TripNext ==
    \/ (FetchTripStops
        /\ UNCHANGED <<matchVars, renderVars, angleVars, normVars, pollVars, layerVars, routingVars>>)
    \/ (ClearTripStops
        /\ UNCHANGED <<matchVars, renderVars, angleVars, normVars, pollVars, layerVars, routingVars>>)
    \/ (TripResponse
        /\ UNCHANGED <<matchVars, renderVars, angleVars, normVars, pollVars, layerVars, routingVars>>)

TripSpec == TripSpecInit /\ [][TripNext]_vars

-----------------------------------------------------------------------------
(* Properties of useVehicles *)

\* C1: after N >= 1 consecutive failed fetches (counted in completion order,
\* scheduled and manual alike) the backoff multiplier is min(2^N, 12), and
\* after a successful fetch, as at the start, it is 1.
C1_BackoffMultiplier ==
    backoffRef = IF consecFails = 0 THEN 1 ELSE Min(2 ^ consecFails, BackoffCap)

\* Four failures in a row: the doubling has hit the cap
C1_Witness ==
    /\ consecFails = 4
    /\ backoffRef = BackoffCap
    /\ lastOutcome = "fail"

\* A step in which a fetch in flight completes
FetchCompletes == flights' # flights /\ flights' \subseteq flights

\* C2: a failed fetch leaves the canonical map (state and ref) and the
\* last-fetch timestamp as they were and sets the error to a message; the
\* promise of fetchVehicles does not reject: the timer callback that awaited
\* it goes on to schedule(), and a manual reload ends reloading.
C2_FailedFetchKeepsState ==
    [][ (FetchCompletes /\ lastOutcome' = "fail") =>
            /\ vehicles' = vehicles
            /\ vehiclesRef' = vehiclesRef
            /\ lastFetch' = lastFetch
            /\ error' # Undefined
            /\ \A f \in flights \ flights' :
                   /\ f[1] = "timer" => loops'[f[2]].state = "timer"
                   /\ f[1] = "manual" => ~reloading'
      ]_vars

\* A fetch failed after an earlier one had filled the map, which is still there
C2_Witness ==
    /\ lastOutcome = "fail"
    /\ error # Undefined
    /\ lastFetch # Undefined
    /\ vehicles # EmptyMap
    /\ vehiclesRef = vehicles

-----------------------------------------------------------------------------
(* Properties of VehicleLayer.updateVehicles *)

\* C3: after every updateVehicles(list) the keys of the heading tracker are
\* exactly the vehicleIDs occurring in the list: each has an entry, and no
\* vehicleID outside the list keeps one.
C3_TrackerKeys ==
    DOMAIN headingTracker = {lastList[i].vehicleID : i \in 1..Len(lastList)}

\* Two samples of one physical vehicle were passed, and one tracker entry
\* stands for both
C3_Witness ==
    /\ Len(lastList) = 2
    /\ lastList[1].vehicleID = lastList[2].vehicleID
    /\ lastList[1].id # lastList[2].id
    /\ DOMAIN headingTracker = {lastList[1].vehicleID}
    /\ DOMAIN groups = {lastList[1].id, lastList[2].id}

\* The position of list[i] in the layer's local frame
LocalOf(v) == toLocal(v.longitude, v.latitude)

\* C4: a physical vehicle that has a tracker entry and comes back under new
\* composite ids only keeps that entry: if none of its samples gets a road
\* match and none is more than the threshold away from the stored position,
\* the entry after the update is the entry before it, and the new render
\* node is aimed at the stored heading; a single unmatched sample further
\* away keeps the sticky segment and gets the heading of the movement from
\* the stored position.  The records and render nodes under the composite
\* ids that are no longer in the list are gone.
C4_TrackerSurvivesRename ==
    [][ \A p \in DOMAIN headingTracker :
          Renamed(p, lastList') =>
            LET samples == {lastList'[i] : i \in SamplesOf(p, lastList')}
                old == headingTracker[p]
                alive == {lastList'[i].id : i \in 1..Len(lastList')}
            IN  /\ p \in DOMAIN headingTracker'
                /\ (/\ \A v \in samples : v.id \notin lastMatched'
                    /\ \A v \in samples :
                           ~Moved(LocalOf(v)[1] - old.x, LocalOf(v)[2] - old.z))
                   => /\ headingTracker'[p] = old
                      /\ \A v \in samples :
                             groups'[v.id].targetHeading = Some(old.heading)
                /\ \A v \in samples :
                     (/\ samples = {v}
                      /\ v.id \notin lastMatched'
                      /\ Moved(LocalOf(v)[1] - old.x, LocalOf(v)[2] - old.z))
                     => /\ headingTracker'[p].roadKey = old.roadKey
                        /\ headingTracker'[p].heading =
                               -Atan2Deg(LocalOf(v)[2] - old.z,
                                         LocalOf(v)[1] - old.x)
                /\ \A k \in DOMAIN data :
                     k \notin alive => k \notin DOMAIN data' \cup DOMAIN groups'
      ]_vars

\* Vehicle 7 came back under a new composite id only, unmatched and within
\* the threshold of the position stored under the old id, which is not the
\* new sample's position; its stored heading, not that of a first sighting,
\* is still there
C4_Witness ==
    /\ lastRenamed # {}
    /\ lastMatched = {}
    /\ \E i \in 1..Len(lastList) :
          LET v == lastList[i]
              t == headingTracker[v.vehicleID]
          IN  /\ v.vehicleID \in lastRenamed
              /\ t.heading # 0
              /\ t.roadKey # Undefined
              /\ <<t.x, t.z>> # LocalOf(v)
              /\ ~Moved(LocalOf(v)[1] - t.x, LocalOf(v)[2] - t.z)
              /\ groups[v.id].targetHeading = Some(t.heading)
              /\ DOMAIN data = {v.id}

\* C25: for a vehicle that is the only sample of its physical vehicle in the
\* list and gets no road match: if it has a tracker entry and is more than
\* the threshold away from the stored position, the stored heading becomes
\* the heading of the movement and the stored position the new position (the
\* sticky segment stays); if it has an entry and is within the threshold, the
\* entry is left as it was; on a first sighting the entry is created with
\* heading 0 and no sticky segment.  The render node is aimed at the stored
\* heading.
C25_NoMatchBranch ==
    [][ \A i \in 1..Len(lastList') :
          LET v == lastList'[i]
              p == v.vehicleID
              loc == LocalOf(v)
          IN  (SamplesOf(p, lastList') = {i} /\ v.id \notin lastMatched')
              => /\ IF p \in DOMAIN headingTracker
                    THEN LET old == headingTracker[p]
                         IN  IF Moved(loc[1] - old.x, loc[2] - old.z)
                             THEN headingTracker'[p] =
                                    [x |-> loc[1], z |-> loc[2],
                                     heading |-> -Atan2Deg(loc[2] - old.z,
                                                           loc[1] - old.x),
                                     roadKey |-> old.roadKey]
                             ELSE headingTracker'[p] = old
                    ELSE headingTracker'[p] =
                            [x |-> loc[1], z |-> loc[2], heading |-> 0,
                             roadKey |-> Undefined]
                 /\ groups'[v.id].targetHeading =
                        Some(headingTracker'[p].heading)
      ]_vars

\* An unmatched vehicle within the threshold of a stored position that is
\* not its own: the entry, with a heading taken from an earlier movement to
\* the west, was left as it was
C25_Witness ==
    /\ lastMatched = {}
    /\ \E i \in 1..Len(lastList) :
          LET v == lastList[i]
              t == headingTracker[v.vehicleID]
          IN  /\ SamplesOf(v.vehicleID, lastList) = {i}
              /\ t.heading = -180
              /\ <<t.x, t.z>> # LocalOf(v)
              /\ ~Moved(LocalOf(v)[1] - t.x, LocalOf(v)[2] - t.z)
              /\ groups[v.id].targetHeading = Some(-180)

\* The tracker updateVehicles would leave for a list and the features found
\* at each of its vehicles
TrackerAfter(list, featsOf) ==
    CleanTracker(UpdateLoop([groups |-> groups, tracker |-> headingTracker,
                             data |-> data, matched |-> {}],
                            list, featsOf, Len(list)).tracker, list)

Reversed(q) == [i \in 1..Len(q) |-> q[Len(q) + 1 - i]]

\* The headings of the movements from a stored position to the samples that
\* are more than the threshold away from it
MovementsFrom(old, list, p) ==
    { -Atan2Deg(LocalOf(list[i])[2] - old.z, LocalOf(list[i])[1] - old.x) :
        i \in {j \in SamplesOf(p, list) :
                 Moved(LocalOf(list[j])[1] - old.x,
                       LocalOf(list[j])[2] - old.z)} }

\* C30: whatever list comes next, the tracker entries after updateVehicles
\* are the same when the list is passed in the opposite order (each vehicle
\* with the same road features), and for a physical vehicle with a stored
\* entry and no road match the heading stored afterwards is the old one or
\* the heading of a movement from the position stored by the previous
\* update to one of its samples, never of a movement between two samples of
\* the list.
C30_SampleOrderIrrelevant ==
    \A list \in LayerLists :
        /\ \A featsOf \in [1..Len(list) -> FeatureLists] :
              TrackerAfter(list, featsOf)
                = TrackerAfter(Reversed(list), Reversed(featsOf))
        /\ \A p \in DOMAIN headingTracker :
              SamplesOf(p, list) # {}
              => TrackerAfter(list, [i \in 1..Len(list) |-> <<>>])[p].heading
                   \in {headingTracker[p].heading}
                       \cup MovementsFrom(headingTracker[p], list, p)

-----------------------------------------------------------------------------
(* Properties of VehicleLayer.getRoadMatch *)

\* The deviation of a segment from the preferred heading, taking the
\* direction of the segment that is closer to it
Deviation(seg) ==
    IF mPreferred = Undefined THEN 0
    ELSE Min(angleDiff(seg.hForward, mPreferred[1]),
             angleDiff(seg.hForward + 180, mPreferred[1]))

\* The candidates: the positions of the segments within the cone
Candidates == {i \in 1..Len(mFeats) : Deviation(mFeats[i]) <= 75}

\* squared distance + (deviation x 45)^2, in 1/16000, deviation in radians
PlainScore(seg) ==
    16000 * seg.d2
    + MulDiv((Deviation(seg) * 45) * (Deviation(seg) * 45), 9870, 2025)

\* ... + 160 if a sticky segment exists and the candidate is another one
FullScore(seg) ==
    PlainScore(seg)
    + (IF mSticky # Undefined /\ seg.roadKey # mSticky[1]
       THEN 16000 * 160 ELSE 0)

\* The first two sentences of C26 and the bound on the deviation
MatchIsLowest ==
    /\ mResult = Undefined
        <=> \A i \in Candidates : FullScore(mFeats[i]) > 16000 * 256
    /\ mResult # Undefined
        => /\ \E i \in Candidates :
                /\ mResult[1].roadKey = mFeats[i].roadKey
                /\ mResult[1].score = FullScore(mFeats[i])
                /\ \A j \in Candidates :
                      FullScore(mFeats[i]) <= FullScore(mFeats[j])
           /\ mPreferred # Undefined
                => angleDiff(mResult[1].heading, mPreferred[1]) <= 75

\* C26 as stated: getRoadMatch returns a candidate of the lowest score, no
\* match when there is none or that score exceeds 256; a match is within 75
\* degrees of a preferred heading; and a segment other than the sticky one
\* is returned only if its score without the penalty is MORE than 160 below
\* the score of the sticky segment (when that is a candidate).
C26_StickyLosesBeyondPenalty ==
    /\ mPc = "done" => MatchIsLowest
    /\ (mPc = "done" /\ mResult # Undefined /\ mSticky # Undefined
         /\ mResult[1].roadKey # mSticky[1])
        => \A j \in Candidates :
              mFeats[j].roadKey = mSticky[1]
              => mResult[1].score - 16000 * 160
                    < FullScore(mFeats[j]) - 16000 * 160

\* C26, amended: ... only if its score without the penalty is AT LEAST 160
\* below the score of the sticky segment: on equal scores the segment
\* tested first is kept.
C26_LowestScoreWins ==
    /\ mPc = "done" => MatchIsLowest
    /\ (mPc = "done" /\ mResult # Undefined /\ mSticky # Undefined
         /\ mResult[1].roadKey # mSticky[1])
        => \A j \in Candidates :
              mFeats[j].roadKey = mSticky[1]
              => mResult[1].score - 16000 * 160
                    <= FullScore(mFeats[j]) - 16000 * 160

\* A segment other than the sticky one was returned although the sticky
\* segment was a candidate
C26_Witness ==
    /\ mPc = "done"
    /\ mResult # Undefined /\ mSticky # Undefined
    /\ mResult[1].roadKey # mSticky[1]
    /\ \E j \in Candidates : mFeats[j].roadKey = mSticky[1]

-----------------------------------------------------------------------------
(* Properties of the render callback *)

\* C27: on every render call, for every node, the change of rotation.y is
\* not against the sign of the normalized difference to the target, its
\* magnitude is at most that difference and at most 120 degrees per second
\* times the time since the last call, that time capped at 0.1 s (so at
\* most 12 degrees); a node is neither removed nor retargeted by rendering.
C27_TurnIsBounded ==
    [][ lastRenderTime' # lastRenderTime
        => /\ DOMAIN rNodes' = DOMAIN rNodes
           /\ \A k \in DOMAIN rNodes :
                LET diff == WrapMilli(TargetOf(rNodes[k]) - rNodes[k].rotationY)
                    change == rNodes'[k].rotationY - rNodes[k].rotationY
                    elapsed == lastRenderTime' - lastRenderTime
                IN  /\ rNodes'[k].targetHeading = rNodes[k].targetHeading
                    /\ diff > 0 => change >= 0
                    /\ diff < 0 => change <= 0
                    /\ diff = 0 => change = 0
                    /\ Abs(change) <= Abs(diff)
                    /\ lastRenderTime > 0
                         => Abs(change) * 6000 <= 120 * 1000 * elapsed
                    /\ Abs(change) <= 12 * 1000
      ]_vars

\* A node 90 degrees or more from its target was turned by the full 12
\* degrees of a capped render call
C27_Witness ==
    /\ rDt = DtCap
    /\ \E k \in DOMAIN rPrev :
          /\ Abs(WrapMilli(TargetOf(rPrev[k]) - rPrev[k].rotationY))
                >= 90 * MilliDeg
          /\ Abs(rNodes[k].rotationY - rPrev[k].rotationY) = 12 * MilliDeg

-----------------------------------------------------------------------------
(* Properties of normalizeVehicles *)

\* The composite ids of the records of a raw list
RawIds(rawList) == {makeId(rawList[i]) : i \in 1..Len(rawList)}

\* The last record of rawList with composite id k
LastWithId(rawList, k) ==
    rawList[CHOOSE i \in 1..Len(rawList) :
                /\ makeId(rawList[i]) = k
                /\ \A j \in (i + 1)..Len(rawList) : makeId(rawList[j]) # k]

\* C5: the keys of the returned map are exactly the composite ids of the raw
\* records, whatever the previous map holds (so an empty raw list gives an
\* empty map); each value's id is its key; of raw records with one composite
\* id the last one wins.
C5_KeysAreRawIds ==
    /\ DOMAIN nMap = RawIds(nRaw)
    /\ \A k \in DOMAIN nMap :
           /\ nMap[k].id = k
           /\ nMap[k].latitude = OrElse(LastWithId(nRaw, k).latitude, 0)
           /\ nMap[k].longitude = OrElse(LastWithId(nRaw, k).longitude, 0)

\* A pass over two different records of one composite id, with a previous
\* map holding an id the raw list does not
C5_Witness ==
    /\ Len(nRaw) = 2
    /\ makeId(nRaw[1]) = makeId(nRaw[2])
    /\ nRaw[1] # nRaw[2]
    /\ nExisting # Undefined
    /\ \E k \in DOMAIN nExisting[1] : k \notin DOMAIN nMap

\* C6: a record whose composite id is a key of the previous map carries
\* exactly that entry's latitude and longitude as its previous position; a
\* record whose id is not a key, or any record when no previous map is given,
\* has both unset.  The previous map is as it was.
C6_PrevPosition ==
    /\ \A k \in DOMAIN nMap :
           IF nExisting # Undefined /\ k \in DOMAIN nExisting[1]
           THEN /\ nMap[k].prevLatitude = Some(nExisting[1][k].latitude)
                /\ nMap[k].prevLongitude = Some(nExisting[1][k].longitude)
           ELSE /\ nMap[k].prevLatitude = Undefined
                /\ nMap[k].prevLongitude = Undefined
    /\ nExistingAfter = nExisting

\* One record carries a previous position that differs from its own, next to
\* one that has none
C6_Witness ==
    /\ \E k \in DOMAIN nMap :
           /\ nMap[k].prevLatitude # Undefined
           /\ nMap[k].prevLatitude[1] # nMap[k].latitude
           /\ nMap[k].prevLongitude[1] # nMap[k].longitude
    /\ \E k \in DOMAIN nMap : nMap[k].prevLatitude = Undefined

-----------------------------------------------------------------------------
(* Properties of useRoutedPath and fetchChunkedRoute *)

Superseded(o) == ops[o].gen # routeGen \/ routeMounted = "gone"

\* C8: a step of a superseded route operation (a response to one of its
\* requests, the last of which settles it, by success or by failure) leaves
\* routedPath and the loading flag as they are.
C8_SupersededNeverApplies ==
    [][ \A o \in DOMAIN ops :
          (Superseded(o) /\ ops'[o] # ops[o])
          => /\ routedPath' = routedPath
             /\ routeLoading' = routeLoading
      ]_vars

\* The first operation resolved after the stops had changed and the second
\* operation had resolved with another path, which is still the routed path
C8_Witness ==
    /\ Len(ops) = 2
    /\ lastResponse.op = 1
    /\ ops[1].state = "resolved"
    /\ ops[2].state = "resolved"
    /\ ops[1].results[1] # Undefined
    /\ ops[2].results[1] # Undefined
    /\ ops[1].results[1] # ops[2].results[1]
    /\ routedPath = ops[2].results[1]
    /\ ~routeLoading

\* The chunks of a finished run of the loop are as C9 says
ChunkShape ==
    IF cN <= MAX_WAYPOINTS
    THEN cChunks = << <<0, cN>> >>
    ELSE /\ Len(cChunks) >= 2
         /\ cChunks[1][1] = 0
         /\ \A k \in 2..Len(cChunks) :
               cChunks[k][1] = cChunks[k - 1][2] - CHUNK_OVERLAP
         /\ \A k \in 1..Len(cChunks) :
               /\ cChunks[k][2] - cChunks[k][1] <= MAX_WAYPOINTS
               /\ cChunks[k][2] - cChunks[k][1] >= 3
         /\ cChunks[Len(cChunks)][2] = cN
         /\ cN = 150 => cChunks = << <<0, 80>>, <<78, 150>> >>

\* C9: for n <= 80 waypoints one request carries them all; for more, the
\* first chunk starts at index 0, every later chunk starts 2 waypoints
\* before the end of the one before, every chunk has at most 80 and at
\* least 3 waypoints, the last chunk ends at the last waypoint, and 150
\* waypoints give [0,80) and [78,150); the chunks are those the requests are
\* made for; the loop ends for every n.
C9_Chunking ==
    /\ [](cPc = "done" => (ChunkShape /\ cChunks = RequestRanges(cN)))
    /\ <>(cPc \in {"idle", "done"})

\* The loop has ended for 150 waypoints, with two chunks
C9_Witness ==
    /\ cPc = "done"
    /\ cN = 150
    /\ cChunks = << <<0, 80>>, <<78, 150>> >>

\* The points of geometry g (counted from 1) within tolerance of lastPt
NearIndices(g, lastPt) == {j \in 1..Len(g) : Near(g[j], lastPt)}

\* C10: whenever the geometry of a later chunk has a point within tolerance
\* of the last point stitched before it, the first point appended from the
\* chunk is not within tolerance of that point, and every point of the chunk
\* up to and including the matching one has been dropped.
C10_SeamHasNoDuplicate ==
    sPc = "done" =>
        \A c \in 1..Len(sSeams) :
            LET g == sResults[c + 1][1]
                lastPt == sStitched[sSeams[c].before]
            IN  NearIndices(g, lastPt) # {} =>
                  /\ sSeams[c].startIdx < Len(g) =>
                        ~Near(sStitched[sSeams[c].before + 1], lastPt)
                  /\ \A j \in NearIndices(g, lastPt) : j <= sSeams[c].startIdx

-----------------------------------------------------------------------------
(* Properties of the schedule loop of useVehicles *)

\* C11: when the timer of a schedule loop fires and the fetch that completed
\* last is that loop's own previous fetch (its timer-driven fetch, or the
\* immediate fetch of the effect run that started the loop), the wait the
\* timer was armed with is the loop's pollInterval times the multiplier that
\* fetch left behind.
C11_WaitFollowsLastFetch ==
    [][ \A g \in 1..MaxEffects :
          (/\ loops[g].state = "timer"
           /\ loops'[g].state = "fetching"
           /\ lastDone \in {<<"immediate", g>>, <<"timer", g>>})
          => loops[g].wait = loops[g].interval * MsPerSecond * backoffRef
      ]_vars

\* C12: when the poll interval changes, the first wait the new schedule loop
\* arms is 1 x the new pollInterval, whatever the multiplier was.
C12_RestartResetsBackoff ==
    [][ (effectGen > 0 /\ effectGen' = effectGen + 1
         /\ pollInterval' # pollInterval)
        => loops'[effectGen'].wait = pollInterval' * MsPerSecond
      ]_vars

\* C16: polling never stops.  After any fetch completes, a timer fires later
\* and starts another fetch, whatever the number of failures in a row; every
\* wait armed is finite: at most 12 x pollInterval.
C16_PollingNeverStops ==
    /\ [](\A g \in 1..MaxEffects :
            loops[g].state = "timer" =>
                loops[g].wait <= BackoffCap * loops[g].interval * MsPerSecond)
    /\ ((lastDone # <<"none", 0>> /\ ~timerSince) ~> timerSince)

\* A timer-driven fetch was started after the fourth failure in a row, from
\* a wait of 12 x pollInterval
C16_Witness ==
    /\ consecFails = MaxFails
    /\ backoffRef = BackoffCap
    /\ lastDone[1] = "timer"
    /\ timerSince
    /\ \E g \in 1..MaxEffects : <<"timer", g>> \in flights

\* "capped at 60s", in milliseconds
MaxWaitMs == 60000

\* C21: the wait a timer is armed with never exceeds 60 seconds, for every
\* poll interval the settings allow and any number of failures in a row.
C21_WaitAtMostSixtySeconds ==
    \A g \in 1..MaxEffects :
        loops[g].state = "timer" => loops[g].wait <= MaxWaitMs

\* The schedule loops whose timer is pending
PendingTimers == {g \in 1..MaxEffects : loops[g].state = "timer"}

\* C22: at any time at most one poll timer is pending, and it is the timer
\* of the loop the last effect run started; a loop superseded by an effect
\* cleanup arms no timer afterwards, even if its callback was awaiting its
\* fetch when the cleanup ran.
C22_OneLiveLoop ==
    /\ Cardinality(PendingTimers) <= 1
    /\ \A g \in PendingTimers : g = effectGen

\* C23: at any time at most one scheduled fetch (the immediate fetch of an
\* effect run or a timer-driven one) is in flight; only a manual reload may
\* overlap a scheduled fetch.
C23_OneScheduledFetch ==
    Cardinality({f \in flights : f[1] # "manual"}) <= 1

\* C13: a fetch the schedule of an earlier effect run started (its immediate
\* fetch or a timer-driven one), still in flight when the settings changed,
\* completes without writing the map, lastFetch, the error or the multiplier.
C13_OutdatedFetchSuppressed ==
    [][ \A f \in flights :
          (f \notin flights' /\ f[1] # "manual" /\ f[2] < effectGen)
          => UNCHANGED <<vehicles, vehiclesRef, lastFetch, error, backoffRef>>
      ]_vars

\* C14: a response with a success status whose body is neither an object
\* with a vehicles array nor a bare array is handled as a failure: the error
\* is set and the canonical map stays as it was.
C14_MalformedBodyIsFailure ==
    [][ (FetchCompletes /\ lastKind' = "other") =>
            /\ error' # Undefined
            /\ vehicles' = vehicles
            /\ vehiclesRef' = vehiclesRef
      ]_vars

-----------------------------------------------------------------------------
(* Properties of the composite id *)

\* C20: the composite id of every normalised record is
\* <physicalId>-<lastStopOrder>, a missing vehicleID or lastStopOrder being
\* replaced by 0: the part after the dash is the record's normalised
\* lastStopOrder, so a raw record without lastStopOrder gets <physicalId>-0.
C20_IdHasNormalisedOrder ==
    \A k \in DOMAIN nMap :
        nMap[k].id = ToString(OrElse(nMap[k].vehicleID, 0)) \o "-"
                        \o ToString(nMap[k].lastStopOrder)

-----------------------------------------------------------------------------
(* Properties of the routed path *)

\* path has at least as many points as there are waypoints, and starts and
\* ends within the tolerance of the first and the last waypoint
PathFits(path, waypoints) ==
    /\ Len(path) >= Len(waypoints)
    /\ Near(path[1], waypoints[1])
    /\ Near(path[Len(path)], waypoints[Len(waypoints)])

\* C19: whenever an operation writes a non-empty routedPath (the geometry of
\* a single request, a stitched geometry or the fallback), the path has at
\* least as many points as the operation has waypoints and starts and ends
\* within the tolerance of its first and last waypoint, whatever geometry the
\* router returned with code Ok.
C19_PathFitsWaypoints ==
    [][ \A o \in DOMAIN ops :
          (/\ ops[o].state = "running"
           /\ ~ops[o].aborted
           /\ ops'[o].state # "running"
           /\ IsDefined(routedPath')
           /\ routedPath'[1] # <<>>)
          => PathFits(routedPath'[1], ops[o].waypoints)
      ]_vars

\* C24: once the stop list has changed, the operation of the previous list
\* is cancelled: its outstanding request is aborted, so no response to it
\* arrives, and it issues no request for a later chunk.
C24_AbortedOperationStops ==
    [][ \A o \in DOMAIN ops : ops[o].aborted => ops'[o] = ops[o] ]_vars

\* C29: a non-empty routedPath belongs to the current stop list: when the
\* stop list changes to a different list the path of the list before is not
\* kept beside the new stops (routedPath is empty until the new route
\* settles), and routedPath is empty whenever fewer than two stops are
\* selected.
C29_PathOfCurrentStops ==
    [][ /\ tripStops' # tripStops => routedPath' = Some(<<>>)
        /\ Len(tripStops') < 2 => routedPath' = Some(<<>>)
      ]_vars

-----------------------------------------------------------------------------
(* Properties of the heading arithmetic of VehicleLayer *)

\* The heading outputs of the layer: the heading of every tracker entry, the
\* targetHeading and the rotation.y of every render node
HeadingOutputs ==
    {headingTracker[p].heading : p \in DOMAIN headingTracker}
    \cup {groups[k].rotationY : k \in DOMAIN groups}
    \cup {groups[k].targetHeading[1] :
            k \in {j \in DOMAIN groups : IsDefined(groups[j].targetHeading)}}

\* C17: every heading output lies in one canonical range of width 2 pi
\* (half-open, as a range that names each direction once), headings taken
\* from a segment traversed in reverse included: any two outputs are less
\* than a full turn apart.
C17_HeadingsCanonical ==
    \A h1, h2 \in HeadingOutputs : h1 - h2 < 360

\* C18: every angle difference is normalised into (-pi, pi]: the value of
\* angleDelta is above -pi and at most pi, half a turn being reported as +pi
\* and never as -pi, and the value of angleDiff, its magnitude, is at most pi.
C18_AngleDifferenceRange ==
    /\ -180 < aDelta
    /\ aDelta <= 180
    /\ aDiff <= 180

-----------------------------------------------------------------------------
(* Properties of useTripStops *)

\* C15: when a call of fetchTripStops ends in a failure (network error,
\* non-OK status, a body that is no JSON), the trip stops known before stay
\* as they were and the error is set.
C15_TripFailureKeepsStops ==
    [][ (tsLast' # tsLast /\ tsLast'.kind \in TripFailures) =>
            /\ tsTripStops' = tsTripStops
            /\ tsError' # Undefined
      ]_vars

\* C28: the response of a call made for a trip that is no longer the active
\* one (replaced by another selection, toggled off or cleared) is not
\* applied; while no trip is active tripStops is empty; and loading is true
\* exactly while a call for the active trip is in flight.
C28_OnlyActiveTripApplied ==
    [][ /\ \A c \in tsCalls \ tsCalls' :
              activeTripID # Some(c.trip) => tsTripStops' = tsTripStops
        /\ activeTripID' = Undefined => tsTripStops' = <<>>
        /\ tsLoading' <=> \E c \in tsCalls' : activeTripID' = Some(c.trip)
      ]_vars

=============================================================================
